---- MODULE Spec2Model ----
(***************************************************************************)
(* A model of the modalities crate (src/src/lib.rs): the Modality flag     *)
(* set, its name conversions to_names / from_names, and the PyModality     *)
(* adapter.                                                                *)
(*                                                                         *)
(* A Modality is modelled by its underlying u32 `bits`, a natural number.  *)
(* The only arithmetic the code does on it is 1 << k for k <= 4, | and &,  *)
(* none of which can leave 32 bits, so no wrap-around is modelled.         *)
(* A PyModality is the record [bits |-> n] of its one field.               *)
(* A Rust &str / String is a TLA+ string; a Vec is a sequence;             *)
(* a Result is Ok(v) = [ok |-> TRUE, val |-> v] or                         *)
(* Err(e) = [ok |-> FALSE, err |-> e].                                     *)
(***************************************************************************)
EXTENDS Integers, Sequences, FiniteSets, TLC

VARIABLES
    a,      \* a core Modality value held by the caller (let a = ...)
    b,      \* a second core Modality value
    c,      \* a third core Modality value (the algebraic laws need three)
    pa,     \* the PyModality object built by the same calls as a
    pb,     \* the PyModality object built by the same calls as b
    input,  \* the slice of names the caller hands to from_names
    out     \* the record of the last call: its name, arguments and result

vars == <<a, b, c, pa, pb, input, out>>

(***************************************************************************)
(* Bounds of the model.                                                    *)
(***************************************************************************)
\* Longest name slice passed to from_names in the value session (Spec).
MaxArgs == 3
\* Longest name slice explored by the parsing specification (SpecNames).
MaxNames == 3

(***************************************************************************)
(* Primitive u32 operators of the language.                                *)
(***************************************************************************)
\* x << k
Shl(x, k) == x * (2 ^ k)

\* x & y, bit by bit from the least significant bit
RECURSIVE BitAnd(_, _)
BitAnd(x, y) ==
    IF x = 0 \/ y = 0 THEN 0
    ELSE (x % 2) * (y % 2) + 2 * BitAnd(x \div 2, y \div 2)

\* x | y, bit by bit from the least significant bit
RECURSIVE BitOr(_, _)
BitOr(x, y) ==
    IF x = 0 THEN y
    ELSE IF y = 0 THEN x
    ELSE (IF x % 2 = 1 \/ y % 2 = 1 THEN 1 ELSE 0)
         + 2 * BitOr(x \div 2, y \div 2)

\* Result<T, E>
Ok(v) == [ok |-> TRUE, val |-> v]
Err(e) == [ok |-> FALSE, err |-> e]

(***************************************************************************)
(* bitflags! { pub struct Modality: u32 { ... } }                          *)
(***************************************************************************)
NONE == 0
AUDIO == Shl(1, 0)
IMAGE == Shl(1, 1)
TEXT == Shl(1, 2)
VIDEO == Shl(1, 3)
\* Modality::OTHER (OTHER alone is a reserved word of TLA+)
OTHER_ == Shl(1, 4)
\* Variant of ALL: the last flag left out of the union.
ALL_without_other == BitOr(BitOr(BitOr(AUDIO, IMAGE), TEXT), VIDEO)

ALL == BitOr(BitOr(BitOr(BitOr(AUDIO, IMAGE), TEXT), VIDEO), OTHER_)

\* The named constants of the type, by name.
ConstNames == {"NONE", "AUDIO", "IMAGE", "TEXT", "VIDEO", "OTHER", "ALL"}

Const(k) ==
    CASE k = "NONE" -> NONE
      [] k = "AUDIO" -> AUDIO
      [] k = "IMAGE" -> IMAGE
      [] k = "TEXT" -> TEXT
      [] k = "VIDEO" -> VIDEO
      [] k = "OTHER" -> OTHER_
      [] k = "ALL" -> ALL

\* Modality::bits(): the underlying integer
bits(self) == self

\* Modality | Modality (and |=), generated by bitflags!: the union of the bits
bitor(self, other) == BitOr(bits(self), bits(other))

\* Modality & Modality, generated by bitflags!: the intersection of the bits
bitand(self, other) == BitAnd(bits(self), bits(other))

\* Modality::contains, generated by bitflags!: self & other == other
contains(self, other) == BitAnd(bits(self), bits(other)) = bits(other)

\* Modality::from_bits_truncate, generated by bitflags!: drops the unknown bits
from_bits_truncate(n) == BitAnd(n, bits(ALL))

(***************************************************************************)
(* impl Modality                                                           *)
(***************************************************************************)
\* Variant of to_names: the push of "other" left out.
to_names_no_other(self) ==
    LET n0 == << >>
        n1 == IF contains(self, AUDIO) THEN Append(n0, "audio") ELSE n0
        n2 == IF contains(self, IMAGE) THEN Append(n1, "image") ELSE n1
        n3 == IF contains(self, TEXT) THEN Append(n2, "text") ELSE n2
        n4 == IF contains(self, VIDEO) THEN Append(n3, "video") ELSE n3
    IN  n4

\* Variant of to_names: the TEXT check placed before the IMAGE check.
to_names_swapped(self) ==
    LET n0 == << >>
        n1 == IF contains(self, AUDIO) THEN Append(n0, "audio") ELSE n0
        n2 == IF contains(self, TEXT) THEN Append(n1, "text") ELSE n1
        n3 == IF contains(self, IMAGE) THEN Append(n2, "image") ELSE n2
        n4 == IF contains(self, VIDEO) THEN Append(n3, "video") ELSE n3
        n5 == IF contains(self, OTHER_) THEN Append(n4, "other") ELSE n4
    IN  n5

to_names(self) ==
    LET n0 == << >>
        n1 == IF contains(self, AUDIO) THEN Append(n0, "audio") ELSE n0
        n2 == IF contains(self, IMAGE) THEN Append(n1, "image") ELSE n1
        n3 == IF contains(self, TEXT) THEN Append(n2, "text") ELSE n2
        n4 == IF contains(self, VIDEO) THEN Append(n3, "video") ELSE n3
        n5 == IF contains(self, OTHER_) THEN Append(n4, "other") ELSE n4
    IN  n5

\* The flag a recognised name stands for.
FlagOfName(name) ==
    CASE name = "audio" -> AUDIO
      [] name = "image" -> IMAGE
      [] name = "text" -> TEXT
      [] name = "video" -> VIDEO
      [] name = "other" -> OTHER_

IsName(name) == name \in {"audio", "image", "text", "video", "other"}

\* Variant of the loop: `bits = flag` in place of `bits |= flag`.
RECURSIVE from_names_loop_assign(_, _, _)
from_names_loop_assign(name_list, i, acc) ==
    IF i > Len(name_list) THEN Ok(acc)
    ELSE IF IsName(name_list[i])
         THEN from_names_loop_assign(name_list, i + 1, FlagOfName(name_list[i]))
         ELSE Err("Invalid modality name: " \o name_list[i])

\* Variant of the loop: `bits += flag` in place of `bits |= flag`.
RECURSIVE from_names_loop_add(_, _, _)
from_names_loop_add(name_list, i, acc) ==
    IF i > Len(name_list) THEN Ok(acc)
    ELSE IF IsName(name_list[i])
         THEN from_names_loop_add(name_list, i + 1, acc + FlagOfName(name_list[i]))
         ELSE Err("Invalid modality name: " \o name_list[i])

\* Variant of the loop: an unrecognised name is remembered and the loop goes
\* on, so that the error names the last one.
RECURSIVE from_names_loop_last(_, _, _)
from_names_loop_last(name_list, i, acc) ==
    IF i > Len(name_list) THEN Ok(acc)
    ELSE IF IsName(name_list[i])
         THEN from_names_loop_last(name_list, i + 1, bitor(acc, FlagOfName(name_list[i])))
         ELSE LET rest == from_names_loop_last(name_list, i + 1, acc)
              IN  IF rest.ok THEN Err("Invalid modality name: " \o name_list[i])
                  ELSE rest

\* The body of `for name in names`, from entry i on, with the accumulator acc.
RECURSIVE from_names_loop(_, _, _)
from_names_loop(name_list, i, acc) ==
    IF i > Len(name_list) THEN Ok(acc)
    ELSE LET name == name_list[i] IN
         CASE name = "audio" -> from_names_loop(name_list, i + 1, bitor(acc, AUDIO))
           [] name = "image" -> from_names_loop(name_list, i + 1, bitor(acc, IMAGE))
           [] name = "text" -> from_names_loop(name_list, i + 1, bitor(acc, TEXT))
           [] name = "video" -> from_names_loop(name_list, i + 1, bitor(acc, VIDEO))
           [] name = "other" -> from_names_loop(name_list, i + 1, bitor(acc, OTHER_))
           [] OTHER -> Err("Invalid modality name: " \o name)

from_names(name_list) == from_names_loop(name_list, 1, NONE)

(***************************************************************************)
(* pub struct PyModality { bits: u32 } and its #[pymethods]                *)
(***************************************************************************)
new == [bits |-> 0]

PyNONE == [bits |-> bits(NONE)]
PyAUDIO == [bits |-> bits(AUDIO)]
PyIMAGE == [bits |-> bits(IMAGE)]
PyTEXT == [bits |-> bits(TEXT)]
PyVIDEO == [bits |-> bits(VIDEO)]
PyOTHER == [bits |-> bits(OTHER_)]
PyALL == [bits |-> bits(ALL)]

PyConst(k) ==
    CASE k = "NONE" -> PyNONE
      [] k = "AUDIO" -> PyAUDIO
      [] k = "IMAGE" -> PyIMAGE
      [] k = "TEXT" -> PyTEXT
      [] k = "VIDEO" -> PyVIDEO
      [] k = "OTHER" -> PyOTHER
      [] k = "ALL" -> PyALL

\* Variant of __or__: & in place of |.
__or__as_and(self, rhs) == [bits |-> BitAnd(self.bits, rhs.bits)]

__or__(self, rhs) == [bits |-> BitOr(self.bits, rhs.bits)]

\* Variant of __and__: self.bits in place of rhs.bits.
__and__self(self, rhs) == [bits |-> BitAnd(self.bits, self.bits)]

__and__(self, rhs) == [bits |-> BitAnd(self.bits, rhs.bits)]

\* Variant of __contains__: an overlap test.
__contains__overlap(self, other) == BitAnd(self.bits, other.bits) # 0

__contains__(self, other) == BitAnd(self.bits, other.bits) = other.bits

\* [String]::join(sep)
RECURSIVE join(_, _)
join(strs, sep) ==
    IF Len(strs) = 0 THEN ""
    ELSE IF Len(strs) = 1 THEN strs[1]
    ELSE strs[1] \o sep \o join(Tail(strs), sep)

names(self) ==
    LET m == from_bits_truncate(self.bits)
    IN  to_names(m)

\* Variant of __str__: no "none" for the empty list of names.
__str__no_fallback(self) == join(names(self), " | ")

__str__(self) ==
    LET joined == join(names(self), " | ")
    IN  IF Len(joined) = 0 THEN "none" ELSE joined

(***************************************************************************)
(* The callers' inputs.                                                    *)
(***************************************************************************)
\* The strings a caller passes as names: the five recognised names, and
\* strings the match of from_names does not recognise (wrong case, an
\* unknown word, a name with trailing space, the empty string).
NameVocab == {"audio", "image", "text", "video", "other",
              "Audio", "bogus", "text ", ""}

SeqsUpTo(S, n) == UNION {[1..k -> S] : k \in 0..n}

\* The names passed to from_names in the value session: the recognised names
\* and one unrecognised word.
ArgVocab == {"audio", "image", "text", "video", "other", "bogus"}

\* The name slices passed to from_names in the value session.
ArgSeqs == SeqsUpTo(ArgVocab, MaxArgs)

Regs == {"a", "b"}

\* The right operand of | and &: a value the caller holds, or a named constant.
Operands == Regs \cup ConstNames

(***************************************************************************)
(* Spec: a caller holding two core values, built from the named constants  *)
(* and from from_names, combined with | and &, and queried.                *)
(***************************************************************************)
Init ==
    /\ a = NONE
    /\ b = NONE
    /\ c = NONE
    /\ pa = new
    /\ pb = new
    /\ input = << >>
    /\ out = [op |-> "init"]

\* let a = Modality::K  (or b)
LoadConst(reg, k) ==
    /\ IF reg = "a" THEN a' = Const(k) /\ b' = b
                    ELSE b' = Const(k) /\ a' = a
    /\ out' = [op |-> "const", name |-> k, val |-> Const(k)]
    /\ UNCHANGED <<c, pa, pb, input>>

\* What from_names returns on the slices of ArgSeqs.
ArgResults == {from_names(ns) : ns \in ArgSeqs}

\* match Modality::from_names(ns) { Ok(m) => a = m, Err(e) => report e }
\* for a slice ns of ArgSeqs, on which from_names returns r
FromNames(reg, r) ==
    /\ IF r.ok
       THEN IF reg = "a" THEN a' = r.val /\ b' = b
                         ELSE b' = r.val /\ a' = a
       ELSE a' = a /\ b' = b
    /\ out' = [op |-> "from_names", res |-> r]
    /\ UNCHANGED <<c, pa, pb, input>>

\* The core value an operand denotes.
Operand(x) == IF x = "a" THEN a ELSE IF x = "b" THEN b ELSE Const(x)

\* a = a | rhs  (or b = b | rhs)
Union(reg, rhs) ==
    LET v == bitor(Operand(reg), Operand(rhs)) IN
    /\ IF reg = "a" THEN a' = v /\ b' = b
                    ELSE b' = v /\ a' = a
    /\ out' = [op |-> "bitor", val |-> v]
    /\ UNCHANGED <<c, pa, pb, input>>

\* a = a & rhs  (or b = b & rhs)
Intersect(reg, rhs) ==
    LET v == bitand(Operand(reg), Operand(rhs)) IN
    /\ IF reg = "a" THEN a' = v /\ b' = b
                    ELSE b' = v /\ a' = a
    /\ out' = [op |-> "bitand", val |-> v]
    /\ UNCHANGED <<c, pa, pb, input>>

\* a.to_names()
ToNames ==
    /\ out' = [op |-> "to_names", self |-> a, names |-> to_names(a)]
    /\ UNCHANGED <<a, b, c, pa, pb, input>>

\* Modality::from_names(&names) on the names to_names just returned
RoundTrip ==
    /\ out.op = "to_names"
    /\ out' = [op |-> "roundtrip", self |-> out.self, names |-> out.names,
               res |-> from_names(out.names)]
    /\ UNCHANGED <<a, b, c, pa, pb, input>>

Next ==
    \/ \E reg \in Regs, k \in ConstNames : LoadConst(reg, k)
    \/ \E reg \in Regs, r \in ArgResults : FromNames(reg, r)
    \/ \E reg \in Regs, rhs \in Operands : Union(reg, rhs)
    \/ \E reg \in Regs, rhs \in Operands : Intersect(reg, rhs)
    \/ ToNames
    \/ RoundTrip

Spec == Init /\ [][Next]_vars

(***************************************************************************)
(* SpecAdapter: the same calls made side by side on the core type (a, b)   *)
(* and on the adapter (pa, pb), from new() and the class constants.        *)
(***************************************************************************)
InitAdapter ==
    /\ a = NONE
    /\ b = NONE
    /\ c = NONE
    /\ pa = new
    /\ pb = new
    /\ input = << >>
    /\ out = [op |-> "init"]

\* pa = PyModality()  beside  a = Modality::NONE
PyNew(reg) ==
    /\ IF reg = "a" THEN a' = NONE /\ pa' = new /\ UNCHANGED <<b, pb>>
                    ELSE b' = NONE /\ pb' = new /\ UNCHANGED <<a, pa>>
    /\ out' = [op |-> "new"]
    /\ UNCHANGED <<c, input>>

\* pa = PyModality.K  beside  a = Modality::K
PyLoadConst(reg, k) ==
    /\ IF reg = "a" THEN a' = Const(k) /\ pa' = PyConst(k) /\ UNCHANGED <<b, pb>>
                    ELSE b' = Const(k) /\ pb' = PyConst(k) /\ UNCHANGED <<a, pa>>
    /\ out' = [op |-> "const", name |-> k]
    /\ UNCHANGED <<c, input>>

\* The adapter value an operand denotes.
PyOperand(x) == IF x = "a" THEN pa ELSE IF x = "b" THEN pb ELSE PyConst(x)

\* pa = pa | rhs  beside  a = a | rhs
PyOr(reg, rhs) ==
    /\ IF reg = "a"
       THEN /\ a' = bitor(a, Operand(rhs))
            /\ pa' = __or__(pa, PyOperand(rhs))
            /\ UNCHANGED <<b, pb>>
       ELSE /\ b' = bitor(b, Operand(rhs))
            /\ pb' = __or__(pb, PyOperand(rhs))
            /\ UNCHANGED <<a, pa>>
    /\ out' = [op |-> "or"]
    /\ UNCHANGED <<c, input>>

\* pa = pa & rhs  beside  a = a & rhs
PyAnd(reg, rhs) ==
    /\ IF reg = "a"
       THEN /\ a' = bitand(a, Operand(rhs))
            /\ pa' = __and__(pa, PyOperand(rhs))
            /\ UNCHANGED <<b, pb>>
       ELSE /\ b' = bitand(b, Operand(rhs))
            /\ pb' = __and__(pb, PyOperand(rhs))
            /\ UNCHANGED <<a, pa>>
    /\ out' = [op |-> "and"]
    /\ UNCHANGED <<c, input>>

\* pb in pa  beside  a.contains(b)
PyContains ==
    /\ out' = [op |-> "contains", self |-> pa, other |-> pb,
               py |-> __contains__(pa, pb), core |-> contains(a, b)]
    /\ UNCHANGED <<a, b, c, pa, pb, input>>

\* pa == pb  beside  a == b  (both derive PartialEq)
PyEq ==
    /\ out' = [op |-> "eq", py |-> (pa = pb), core |-> (a = b)]
    /\ UNCHANGED <<a, b, c, pa, pb, input>>

\* pa.names()  beside  a.to_names()
PyNames ==
    /\ out' = [op |-> "names", self |-> pa, py |-> names(pa), core |-> to_names(a)]
    /\ UNCHANGED <<a, b, c, pa, pb, input>>

\* str(pa)
PyStr ==
    /\ out' = [op |-> "str", self |-> pa, text |-> __str__(pa)]
    /\ UNCHANGED <<a, b, c, pa, pb, input>>

NextAdapter ==
    \/ \E reg \in Regs : PyNew(reg)
    \/ \E reg \in Regs, k \in ConstNames : PyLoadConst(reg, k)
    \/ \E reg \in Regs, rhs \in Operands : PyOr(reg, rhs)
    \/ \E reg \in Regs, rhs \in Operands : PyAnd(reg, rhs)
    \/ PyContains
    \/ PyEq
    \/ PyNames
    \/ PyStr

SpecAdapter == InitAdapter /\ [][NextAdapter]_vars

(***************************************************************************)
(* SpecAlgebra: three valid sets, and the terms of the algebraic laws      *)
(* computed on them by the core operators and by the adapter's.            *)
(***************************************************************************)
\* Every Modality value: the integers from_bits_truncate leaves alone.
ValidSets == {n \in 0..bits(ALL) : from_bits_truncate(n) = n}

\* PyModality { bits: m.bits() }, as the class constants are built
PyOf(m) == [bits |-> bits(m)]

InitAlgebra ==
    /\ a \in ValidSets
    /\ b \in ValidSets
    /\ c \in ValidSets
    /\ pa = PyOf(a)
    /\ pb = PyOf(b)
    /\ input = << >>
    /\ out = [op |-> "init"]

UnionLaws ==
    /\ out' = [op |-> "union",
               ab |-> bitor(a, b), ba |-> bitor(b, a),
               ab_c |-> bitor(bitor(a, b), c), a_bc |-> bitor(a, bitor(b, c)),
               aa |-> bitor(a, a)]
    /\ UNCHANGED <<a, b, c, pa, pb, input>>

IntersectLaws ==
    /\ out' = [op |-> "intersect",
               ab |-> bitand(a, b), ba |-> bitand(b, a),
               ab_c |-> bitand(bitand(a, b), c), a_bc |-> bitand(a, bitand(b, c)),
               aa |-> bitand(a, a),
               in_a |-> contains(a, bitand(a, b)),
               in_b |-> contains(b, bitand(a, b)),
               absorb |-> bitand(a, bitor(a, b))]
    /\ UNCHANGED <<a, b, c, pa, pb, input>>

PyUnionLaws ==
    LET pc == PyOf(c) IN
    /\ out' = [op |-> "py_union",
               ab |-> __or__(pa, pb), ba |-> __or__(pb, pa),
               ab_c |-> __or__(__or__(pa, pb), pc),
               a_bc |-> __or__(pa, __or__(pb, pc)),
               aa |-> __or__(pa, pa)]
    /\ UNCHANGED <<a, b, c, pa, pb, input>>

PyIntersectLaws ==
    LET pc == PyOf(c) IN
    /\ out' = [op |-> "py_intersect",
               ab |-> __and__(pa, pb), ba |-> __and__(pb, pa),
               ab_c |-> __and__(__and__(pa, pb), pc),
               a_bc |-> __and__(pa, __and__(pb, pc)),
               aa |-> __and__(pa, pa),
               in_a |-> __contains__(pa, __and__(pa, pb)),
               in_b |-> __contains__(pb, __and__(pa, pb)),
               absorb |-> __and__(pa, __or__(pa, pb))]
    /\ UNCHANGED <<a, b, c, pa, pb, input>>

NextAlgebra ==
    \/ UnionLaws
    \/ IntersectLaws
    \/ PyUnionLaws
    \/ PyIntersectLaws

SpecAlgebra == InitAlgebra /\ [][NextAlgebra]_vars

(***************************************************************************)
(* SpecNames: one slice of names, parsed by from_names, rendered back by   *)
(* to_names, and parsed again after its entries are reordered, duplicated  *)
(* or removed.                                                             *)
(***************************************************************************)
NameSeqs == SeqsUpTo(NameVocab, MaxNames)

InitNames ==
    /\ a = NONE
    /\ b = NONE
    /\ c = NONE
    /\ pa = new
    /\ pb = new
    /\ input \in NameSeqs
    /\ out = [op |-> "init"]

Parsed == out.op \in {"from_names", "reparse"}

\* Modality::from_names(&input)
Parse ==
    /\ out' = [op |-> "from_names", names |-> input, res |-> from_names(input)]
    /\ UNCHANGED <<a, b, c, pa, pb, input>>

\* m.to_names() on the Ok(m) just returned
Render ==
    /\ Parsed
    /\ out.res.ok
    /\ out' = [op |-> "render", names |-> out.names, self |-> out.res.val,
               rendered |-> to_names(out.res.val)]
    /\ UNCHANGED <<a, b, c, pa, pb, input>>

\* The caller's slice with the entries i and i + 1 exchanged, parsed again.
Swap(i) ==
    LET swapped == [input EXCEPT ![i] = input[i + 1], ![i + 1] = input[i]] IN
    /\ Parsed
    /\ input' = swapped
    /\ out' = [op |-> "reparse", names |-> swapped, before |-> out.res,
               res |-> from_names(swapped)]
    /\ UNCHANGED <<a, b, c, pa, pb>>

\* The caller's slice with the entry i repeated at the end, parsed again.
Duplicate(i) ==
    LET longer == Append(input, input[i]) IN
    /\ Parsed
    /\ Len(input) < MaxNames
    /\ input' = longer
    /\ out' = [op |-> "reparse", names |-> longer, before |-> out.res,
               res |-> from_names(longer)]
    /\ UNCHANGED <<a, b, c, pa, pb>>

\* The caller's slice without the entry i, a repeat of another, parsed again.
Dedup(i) ==
    LET shorter == SubSeq(input, 1, i - 1) \o SubSeq(input, i + 1, Len(input)) IN
    /\ Parsed
    /\ \E j \in 1..Len(input) : j # i /\ input[j] = input[i]
    /\ input' = shorter
    /\ out' = [op |-> "reparse", names |-> shorter, before |-> out.res,
               res |-> from_names(shorter)]
    /\ UNCHANGED <<a, b, c, pa, pb>>

NextNames ==
    \/ Parse
    \/ Render
    \/ \E i \in 1..(Len(input) - 1) : Swap(i)
    \/ \E i \in 1..Len(input) : Duplicate(i)
    \/ \E i \in 1..Len(input) : Dedup(i)

SpecNames == InitNames /\ [][NextNames]_vars

(***************************************************************************)
(* The reference the properties are stated against: a set of flags read    *)
(* off the integer by division, independently of BitAnd and of to_names.   *)
(***************************************************************************)
\* Whether bit k of n is set.
HasFlag(n, k) == (n \div (2 ^ k)) % 2 = 1

\* The bit positions of the five flags, and those set in n.
FlagsOf(n) == {k \in 0..4 : HasFlag(n, k)}

\* The names in declaration order; the flag at bit k is named DeclOrder[k + 1].
DeclOrder == <<"audio", "image", "text", "video", "other">>

Recognised == {"audio", "image", "text", "video", "other"}

Range(s) == {s[i] : i \in DOMAIN s}

\* The i-th smallest element of the set of numbers S.
Nth(S, i) == CHOOSE p \in S : Cardinality({q \in S : q < p}) = i - 1

\* The subsequence of DeclOrder of the flags of n.
ExpectedNames(n) ==
    [i \in 1..Cardinality(FlagsOf(n)) |-> DeclOrder[Nth(FlagsOf(n), i) + 1]]

\* The integer of the set of the recognised names in S.
ExpectedBits(S) ==
    (IF "audio" \in S THEN 1 ELSE 0) + (IF "image" \in S THEN 2 ELSE 0)
    + (IF "text" \in S THEN 4 ELSE 0) + (IF "video" \in S THEN 8 ELSE 0)
    + (IF "other" \in S THEN 16 ELSE 0)

\* The entries of s with " | " between them, built from the last entry back.
RECURSIVE Separated(_)
Separated(s) ==
    IF Len(s) = 1 THEN s[1]
    ELSE Separated(SubSeq(s, 1, Len(s) - 1)) \o " | " \o s[Len(s)]

\* The positions of the entries of s that are not recognised names.
BadAt(s) == {i \in 1..Len(s) : s[i] \notin Recognised}

(***************************************************************************)
(* The properties.                                                         *)
(***************************************************************************)

\* C1: from_names(to_names(s)) succeeds and returns s, for every set s the
\* caller can hold (all 32 subsets of the five flags, NONE and ALL included).
C1_RoundTrip ==
    out.op = "roundtrip" =>
        /\ out.res.ok
        /\ out.res.val = out.self

C1_Witness ==
    /\ out.op = "roundtrip"
    /\ out.self = 31
    /\ Len(out.names) = 5
    /\ out.res.ok

\* C2: from_names returns an error naming the earliest unrecognised entry of
\* its input, and no set, whenever the input holds an entry that is not exactly
\* one of the five names; on an input of recognised names only it returns a set
\* and no error.
C2_FirstInvalidName ==
    Parsed =>
        IF BadAt(out.names) = {}
        THEN /\ out.res.ok
             /\ DOMAIN out.res = {"ok", "val"}
        ELSE /\ ~out.res.ok
             /\ DOMAIN out.res = {"ok", "err"}
             /\ out.res.err =
                    "Invalid modality name: " \o out.names[Nth(BadAt(out.names), 1)]

C2_Witness ==
    /\ out.op = "from_names"
    /\ out.names = <<"audio", "Audio", "bogus">>
    /\ out.res = [ok |-> FALSE, err |-> "Invalid modality name: Audio"]

\* C3: to_names(s) is the subsequence of audio, image, text, video, other (in
\* that order, without duplicates) of the names whose flag is in s: as long as
\* s has flags, empty iff s is NONE, and the whole list for ALL.
C3_ToNamesDeclarationOrder ==
    out.op = "to_names" =>
        /\ out.names = ExpectedNames(out.self)
        /\ Len(out.names) = Cardinality(FlagsOf(out.self))
        /\ Cardinality(Range(out.names)) = Len(out.names)
        /\ (out.names = << >>) <=> (out.self = 0)
        /\ out.self = 31 => out.names = <<"audio", "image", "text", "video", "other">>

C3_Witness ==
    /\ out.op = "to_names"
    /\ out.self = 26
    /\ out.names = <<"image", "video", "other">>

\* C4: contains(x, q) is true iff every flag of q is in x (a subset test, not
\* an overlap test); so contains(x, NONE), contains(x, x), contains(x | y, x)
\* and contains(x | y, y) are true, and a query only partly in x gives false.
C4_ContainsIsSubset ==
    /\ out.op = "contains" =>
        /\ out.py = (FlagsOf(out.other.bits) \subseteq FlagsOf(out.self.bits))
        /\ out.core = (FlagsOf(out.other.bits) \subseteq FlagsOf(out.self.bits))
    /\ __contains__(pa, PyNONE) /\ contains(a, NONE)
    /\ __contains__(pa, pa) /\ contains(a, a)
    /\ __contains__(__or__(pa, pb), pa) /\ contains(bitor(a, b), a)
    /\ __contains__(__or__(pa, pb), pb) /\ contains(bitor(a, b), b)

C4_Witness ==
    /\ out.op = "contains"
    /\ out.self.bits = 9
    /\ out.other.bits = 5
    /\ out.py = FALSE
    /\ out.core = FALSE

\* C5: union and intersect are commutative, associative and idempotent;
\* intersect(x, union(x, y)) = x; intersect(x, y) is contained in x and in y;
\* and the intersection of two sets with no common flag is NONE.
C5_AlgebraLaws ==
    /\ out.op \in {"union", "py_union", "intersect", "py_intersect"} =>
        /\ out.ab = out.ba
        /\ out.ab_c = out.a_bc
    /\ out.op \in {"union", "intersect"} => out.aa = a
    /\ out.op \in {"py_union", "py_intersect"} => out.aa = pa
    /\ out.op = "intersect" =>
        /\ out.absorb = a
        /\ out.in_a /\ out.in_b
        /\ (FlagsOf(a) \cap FlagsOf(b) = {}) => out.ab = 0
    /\ out.op = "py_intersect" =>
        /\ out.absorb = pa
        /\ out.in_a /\ out.in_b
        /\ (FlagsOf(a) \cap FlagsOf(b) = {}) => out.ab = [bits |-> 0]

C5_Witness ==
    /\ out.op = "py_intersect"
    /\ a = 13 /\ b = 18 /\ c = 7
    /\ out.ab = [bits |-> 0]
    /\ out.absorb = pa

\* C6: from_names of recognised names returns the union of their flags (NONE
\* for no name), whatever their order and multiplicity: parsing the slice again
\* after exchanging, repeating or removing a repeated entry gives an equal set,
\* and to_names of the result is in declaration order, not in input order.
C6_OrderAndMultiplicity ==
    /\ (Parsed /\ Range(out.names) \subseteq Recognised) =>
        /\ out.res.ok
        /\ out.res.val = ExpectedBits(Range(out.names))
        /\ (out.names = << >>) => out.res.val = 0
    /\ (out.op = "reparse" /\ Range(out.names) \subseteq Recognised) =>
        out.res = out.before
    /\ out.op = "render" =>
        /\ out.rendered = ExpectedNames(ExpectedBits(Range(out.names)))
        /\ (out.names = <<"video", "audio">>) => out.rendered = <<"audio", "video">>

C6_Witness ==
    /\ out.op = "render"
    /\ out.names = <<"video", "audio", "video">>
    /\ out.rendered = <<"audio", "video">>

\* C7: str() of an adapter value is never empty: "none" for NONE, which is no
\* flag name, and otherwise the names of the set in declaration order with
\* " | " between them (the bare name for a single flag).
C7_Rendering ==
    out.op = "str" =>
        /\ Len(out.text) > 0
        /\ (out.self.bits = 0) => out.text = "none"
        /\ "none" \notin Range(names(out.self))
        /\ (out.self.bits # 0) => out.text = Separated(ExpectedNames(out.self.bits))
        /\ \A k \in 0..4 : (FlagsOf(out.self.bits) = {k}) => out.text = DeclOrder[k + 1]

C7_Witness ==
    /\ out.op = "str"
    /\ out.self.bits = 21
    /\ out.text = "audio | text | other"

\* C8: every value built from the named constants and from successful
\* from_names calls with | and & has its integer in 0..31.
C8_Validity ==
    /\ a \in 0..31
    /\ b \in 0..31
    /\ out.op \in {"const", "bitor", "bitand"} => out.val \in 0..31
    /\ (out.op = "from_names" /\ out.res.ok) => out.res.val \in 0..31

C8_Witness ==
    /\ out.op = "from_names"
    /\ out.res = [ok |-> TRUE, val |-> 18]
    /\ a = 18
    /\ b = 31

\* C9: AUDIO = 1, IMAGE = 2, TEXT = 4, VIDEO = 8, OTHER = 16, NONE = 0 and
\* ALL = 31, the union of the five flags; two different single flags have
\* different values and intersect in NONE.
C9_Constants ==
    /\ out.op = "const" =>
        out.val = CASE out.name = "NONE" -> 0
                    [] out.name = "AUDIO" -> 1
                    [] out.name = "IMAGE" -> 2
                    [] out.name = "TEXT" -> 4
                    [] out.name = "VIDEO" -> 8
                    [] out.name = "OTHER" -> 16
                    [] out.name = "ALL" -> 31
    /\ (out.op = "const" /\ out.name = "ALL") =>
        out.val = bitor(bitor(bitor(bitor(AUDIO, IMAGE), TEXT), VIDEO), OTHER_)
    /\ (out.op = "const" /\ out.name \notin {"NONE", "ALL"}) =>
        Cardinality(FlagsOf(out.val)) = 1
    /\ \A f, g \in ConstNames \ {"NONE", "ALL"} :
        (a = Const(f) /\ b = Const(g) /\ f # g) => (a # b /\ bitand(a, b) = 0)

C9_Witness ==
    /\ out.op = "const"
    /\ out.name = "ALL"
    /\ a = 31
    /\ b = 16

\* C10: built by the same calls, an adapter value holds the bits of the core
\* value, all within ALL (from_bits_truncate in names() drops nothing);
\* __contains__ agrees with contains, == with ==, and names() with to_names.
C10_AdapterEquivalence ==
    /\ pa.bits = bits(a)
    /\ pb.bits = bits(b)
    /\ from_bits_truncate(pa.bits) = pa.bits
    /\ from_bits_truncate(pb.bits) = pb.bits
    /\ pa.bits \in 0..31 /\ pb.bits \in 0..31
    /\ out.op \in {"contains", "eq", "names"} => out.py = out.core

C10_Witness ==
    /\ out.op = "names"
    /\ pa.bits = 22
    /\ pb.bits = 9
    /\ out.py = <<"image", "text", "other">>

====
